---- MODULE Spec2Model ----
(***************************************************************************)
(* The two example notebooks of docs/examples/embeddings/nomic.ipynb as a  *)
(* state machine: the Nomic embedding notebook (lines 1-229) and the       *)
(* recursive-retriever document-agents notebook (lines 231-669).  A state  *)
(* is the kernel's name space (one variable per Python name), the process  *)
(* environment, the files under data/ and the position in the notebook.    *)
(* One action models one cell, or one iteration of a cell's for loop.      *)
(* What the external services return (the wiki API's responses, the        *)
(* similarity ranking of the embedding model beyond what the notebook's    *)
(* recorded outputs show, the chunking of the essay) is chosen with \E.    *)
(***************************************************************************)
EXTENDS Integers, Sequences, FiniteSets, TLC

(* ------------------------------ bounds --------------------------------- *)
\* distinct texts the wiki API / wget can deliver
NumTexts == 2
\* pages in one wiki API response
MaxPages == 2
\* nodes the essay is split into
MaxChunks == 3
\* cells run in the "Running Example Queries" section
MaxRuns == 3
\* times the download cell is run in a session
MaxDownloadRuns == 2

(* --------------------------- program constants ------------------------- *)
wiki_titles == <<"Toronto", "Seattle", "Chicago", "Boston", "Houston">>

Titles == {wiki_titles[k] : k \in 1..Len(wiki_titles)}

\* the three query texts of the example cells, by the city each names
ExampleQueries == {"sports teams in Boston", "sports teams in Houston",
                   "positive aspects of Chicago"}

\* "Retrieval entering <index_id>: OpenAIAgent" in the recorded outputs
RecordedEntering ==
    [q \in ExampleQueries |->
        CASE q = "sports teams in Boston" -> "Boston"
          [] q = "sports teams in Houston" -> "Houston"
          [] q = "positive aspects of Chicago" -> "Chicago"]

\* "=== Calling Function ===" lines in the recorded outputs
RecordedCalls ==
    [q \in ExampleQueries |->
        IF q = "positive aspects of Chicago" THEN <<"summary_tool">> ELSE <<>>]

(* ------------------------------- values -------------------------------- *)
Texts == 1..NumTexts

\* content of a file that was on disk before the notebook ran: a text other
\* than every text the services deliver
StaleText == NumTexts + 1

Unbound == [kind |-> "unbound"]

EmptyDict == [k \in {} |-> 0]

\* d[k] = v of a Python dict
DictSet(d, k, v) == [x \in (DOMAIN d) \cup {k} |-> IF x = k THEN v ELSE d[x]]

Min(a, b) == IF a < b THEN a ELSE b

\* a page of a wiki API response: with or without an 'extract' field
Pages == {[has_extract |-> TRUE, extract |-> x] : x \in Texts}
            \cup {[has_extract |-> FALSE, extract |-> StaleText]}

PageSeqs == UNION {[1..n -> Pages] : n \in 0..MaxPages}

\* what requests.get(...).json() can deliver: a network error, or the pages
Responses == {[kind |-> "json", ok |-> FALSE, pages |-> <<>>]}
                \cup {[kind |-> "json", ok |-> TRUE, pages |-> ps] : ps \in PageSeqs}

\* the parsed JSON body bound to the name response; the iteration has read
\* its first page by the time the name is looked at again
JsonDict == [kind |-> "json"]

\* data_path / f"{title}.txt"
DataFile(t) == <<"data", t>>

\* the load loop reading from another directory than the download loop
\* writes to
InputFile_other(t) == <<"data/wiki", t>>

\* f"data/{wiki_title}.txt"
InputFile(t) == <<"data", t>>

EssayFile == <<"data/paul_graham", "paul_graham_essay">>

OtherFile == <<"data", "notes">>

VARIABLES
    nb, pc, i, raised, steps, env, keyUses, files, dataExists, mkdirs,
    title, response, page, wiki_text, written, fetched, files0,
    city_docs, wiki_title, llm, service_context,
    vector_index, summary_index, vector_query_engine, list_query_engine,
    query_engine_tools, function_llm, agent, agents,
    node, objects, query_engine, lastQuery, stdout, runs,
    documents, nomic_api_key, embed_model, index, search_query_retriever,
    retriever_nomic, retrieved_nodes_nomic, n, displayed,
    run, files1

ctlVars == <<nb, pc, i, raised, steps>>
envVars == <<env, keyUses>>
fsVars == <<files, dataExists, mkdirs>>
dlVars == <<title, response, page, wiki_text, written, fetched, files0>>
docVars == <<city_docs, wiki_title>>
ctxVars == <<llm, service_context>>
loopVars == <<vector_index, summary_index, vector_query_engine,
              list_query_engine, query_engine_tools, function_llm, agent>>
topVars == <<node, objects, query_engine>>
runVars == <<lastQuery, stdout, runs>>
nomicVars == <<documents, nomic_api_key, embed_model, index,
               search_query_retriever, retriever_nomic,
               retrieved_nodes_nomic, n, displayed>>

\* the run of the download cell under way, and the files its first run left
rerunVars == <<run, files1>>

vars == <<ctlVars, envVars, fsVars, dlVars, docVars, ctxVars, loopVars,
          agents, topVars, runVars, nomicVars, rerunVars>>

(* ---------------------------- initial state ---------------------------- *)
\* the files on disk before the first cell: no data directory, an empty
\* one, or one left by an earlier session
InitialDisks ==
    {[exists |-> FALSE, files |-> EmptyDict],
     [exists |-> TRUE, files |-> EmptyDict],
     [exists |-> TRUE,
      files |-> [p \in {DataFile(t) : t \in Titles} \cup {OtherFile}
                    |-> <<StaleText>>]]}

Init ==
    /\ nb \in {"nomic", "agents"}
    /\ pc = IF nb = "nomic" THEN "n_setkey" ELSE "download"
    /\ i = 1
    /\ raised = "none"
    /\ steps = <<>>
    /\ env = EmptyDict
    /\ keyUses = {}
    /\ \E d \in InitialDisks :
          /\ files = d.files
          /\ dataExists = d.exists
          /\ files0 = d.files
    /\ mkdirs = 0
    /\ title = "" /\ response = Unbound /\ page = Unbound /\ wiki_text = StaleText
    /\ written = {} /\ fetched = EmptyDict
    /\ city_docs = EmptyDict /\ wiki_title = ""
    /\ llm = Unbound /\ service_context = Unbound
    /\ vector_index = Unbound /\ summary_index = Unbound
    /\ vector_query_engine = Unbound /\ list_query_engine = Unbound
    /\ query_engine_tools = <<>> /\ function_llm = Unbound /\ agent = Unbound
    /\ agents = EmptyDict
    /\ node = Unbound /\ objects = <<>> /\ query_engine = Unbound
    /\ lastQuery = Unbound /\ stdout = <<>> /\ runs = 0
    /\ documents = <<>> /\ nomic_api_key = "" /\ embed_model = Unbound
    /\ index = Unbound /\ search_query_retriever = Unbound
    /\ retriever_nomic = Unbound /\ retrieved_nodes_nomic = <<>>
    /\ n = Unbound /\ displayed = <<>>
    /\ run = 1 /\ files1 = EmptyDict

(* ------------- agents notebook: the download cell (320-344) ------------ *)
\* the last page of the response instead of the first
FirstPage_last(r) == r.pages[Len(r.pages)]

\* next(iter(response["query"]["pages"].values()))
FirstPage(r) == r.pages[1]

\* how one pass through lines 325-337 ends
FetchOutcome(r) ==
    IF ~r.ok THEN "ConnectionError"
    ELSE IF r.pages = <<>> THEN "StopIteration"
    ELSE IF ~FirstPage(r).has_extract THEN "KeyError"
    ELSE "ok"

\* the file opened for appending instead of writing
WriteText_append(fs, path, text) ==
    DictSet(fs, path, IF path \in DOMAIN fs THEN Append(fs[path], text)
                                            ELSE <<text>>)

\* with open(path, "w") as fp: fp.write(text)
WriteText(fs, path, text) == DictSet(fs, path, <<text>>)

\* if not data_path.exists(): whether the iteration calls Path.mkdir
MkdirNeeded(exists) == ~exists

\* for title in wiki_titles: one iteration whose fetch succeeds; in a run
\* after the first the API returns what it returned in the run before
DownloadOk ==
    /\ nb = "agents" /\ pc = "download"
    /\ \E r \in Responses :
          /\ FetchOutcome(r) = "ok"
          /\ run > 1 => Head(r.pages).extract = fetched[wiki_titles[i]]
          /\ title' = wiki_titles[i]
          /\ response' = JsonDict
          /\ page' = FirstPage(r)
          /\ wiki_text' = page'.extract
          /\ fetched' = DictSet(fetched, title', Head(r.pages).extract)
    /\ steps' = Append(steps, "load")
    /\ IF MkdirNeeded(dataExists) /\ dataExists
          THEN /\ raised' = "FileExistsError"
               /\ pc' = "error"
               /\ mkdirs' = mkdirs + 1
               /\ UNCHANGED <<dataExists, files, written, i>>
          ELSE /\ dataExists' = TRUE
               /\ mkdirs' = IF MkdirNeeded(dataExists) THEN mkdirs + 1 ELSE mkdirs
               /\ files' = WriteText(files, DataFile(title'), wiki_text')
               /\ written' = written \cup {DataFile(title')}
               /\ raised' = raised
               /\ IF i < Len(wiki_titles)
                     THEN i' = i + 1 /\ pc' = pc
                     ELSE i' = 1 /\ pc' = "load"
    /\ UNCHANGED <<nb, rerunVars, files0, envVars, docVars, ctxVars, loopVars,
                   agents, topVars, runVars, nomicVars>>

\* the download cell run again once it has completed
RerunDownload ==
    /\ nb = "agents" /\ pc = "load" /\ i = 1
    /\ run < MaxDownloadRuns
    /\ run' = run + 1
    /\ files1' = IF run = 1 THEN files ELSE files1
    /\ pc' = "download"
    /\ UNCHANGED <<nb, i, raised, steps, envVars, fsVars, dlVars, docVars,
                   ctxVars, loopVars, agents, topVars, runVars, nomicVars>>

\* the iteration with the failure caught and the loop going on
DownloadFail_continue ==
    /\ nb = "agents" /\ pc = "download"
    /\ \E r \in Responses :
          /\ FetchOutcome(r) # "ok"
          /\ raised' = FetchOutcome(r)
          /\ title' = wiki_titles[i]
          /\ response' = IF r.ok THEN JsonDict ELSE response
          /\ page' = IF raised' = "KeyError" THEN FirstPage(r) ELSE page
    /\ steps' = Append(steps, "load")
    /\ IF i < Len(wiki_titles)
          THEN i' = i + 1 /\ pc' = pc
          ELSE i' = 1 /\ pc' = "load"
    /\ UNCHANGED <<nb, rerunVars, wiki_text, written, fetched, files0, envVars,
                   fsVars, docVars, ctxVars, loopVars, agents, topVars,
                   runVars, nomicVars>>

\* one iteration whose fetch raises: nothing catches it, the cell ends
DownloadFail ==
    /\ nb = "agents" /\ pc = "download"
    /\ run = 1
    /\ \E r \in Responses :
          /\ FetchOutcome(r) # "ok"
          /\ raised' = FetchOutcome(r)
          /\ title' = wiki_titles[i]
          /\ response' = IF r.ok THEN JsonDict ELSE response
          /\ page' = IF raised' = "KeyError" THEN FirstPage(r) ELSE page
    /\ steps' = Append(steps, "load")
    /\ pc' = "error"
    /\ UNCHANGED <<nb, rerunVars, i, wiki_text, written, fetched, files0, envVars,
                   fsVars, docVars, ctxVars, loopVars, agents, topVars,
                   runVars, nomicVars>>

(* --------------- agents notebook: the load cell (354-359) -------------- *)
\* SimpleDirectoryReader(input_files=paths).load_data(): one Document a file
LoadData(fs, paths) ==
    [k \in 1..Len(paths) |-> [file |-> paths[k], text |-> fs[paths[k]]]]

\* city_docs = {} and then one iteration of the loop over wiki_titles
LoadStep ==
    /\ nb = "agents" /\ pc = "load"
    /\ wiki_title' = wiki_titles[i]
    /\ IF InputFile(wiki_title') \in DOMAIN files
          THEN /\ city_docs' = DictSet(IF i = 1 THEN EmptyDict ELSE city_docs,
                                       wiki_title',
                                       LoadData(files, <<InputFile(wiki_title')>>))
               /\ steps' = Append(steps, "load")
               /\ raised' = raised
               /\ IF i < Len(wiki_titles)
                     THEN i' = i + 1 /\ pc' = pc
                     ELSE i' = 1 /\ pc' = "setkey"
          ELSE /\ raised' = "FileNotFoundError"
               /\ pc' = "error"
               /\ UNCHANGED <<city_docs, steps, i>>
    /\ UNCHANGED <<nb, rerunVars, envVars, fsVars, dlVars, ctxVars, loopVars, agents,
                   topVars, runVars, nomicVars>>

(* ---------- agents notebook: key, LLM and service context (377-390) ---- *)
\* the cell without its assignment to os.environ
SetKey_omitted ==
    /\ nb = "agents" /\ pc = "setkey"
    /\ pc' = "ctx"
    /\ UNCHANGED <<nb, rerunVars, i, raised, steps, envVars, fsVars, dlVars, docVars,
                   ctxVars, loopVars, agents, topVars, runVars, nomicVars>>

\* os.environ["OPENAI_API_KEY"] = "sk-..."
SetKey ==
    /\ nb = "agents" /\ pc = "setkey"
    /\ env' = DictSet(env, "OPENAI_API_KEY", "sk-...")
    /\ steps' = Append(steps, "cred")
    /\ pc' = "ctx"
    /\ UNCHANGED <<nb, rerunVars, i, raised, keyUses, fsVars, dlVars, docVars, ctxVars,
                   loopVars, agents, topVars, runVars, nomicVars>>

\* OpenAI(model=...): no api_key argument, the library reads the environment
OpenAI(e, model) ==
    [kind |-> "OpenAI", model |-> model, api_key |-> e["OPENAI_API_KEY"]]

\* the library object named lib received key by way of via ("env" or "arg")
KeyUse(lib, via, key) == [lib |-> lib, via |-> via, key |-> key]

\* llm = OpenAI(...); service_context = ServiceContext.from_defaults(llm=llm)
MakeContext ==
    /\ nb = "agents" /\ pc = "ctx"
    /\ IF "OPENAI_API_KEY" \in DOMAIN env
          THEN /\ llm' = OpenAI(env, "gpt-3.5-turbo")
               /\ service_context' =
                     [kind |-> "ServiceContext", llm |-> llm',
                      embed_model |-> "default"]
               /\ keyUses' = keyUses
                     \cup {KeyUse("OpenAI", "env", env["OPENAI_API_KEY"])}
               /\ steps' = steps \o <<"construct", "construct">>
               /\ pc' = "agents"
               /\ raised' = raised
          ELSE /\ raised' = "ValueError"
               /\ pc' = "error"
               /\ steps' = Append(steps, "construct")
               /\ UNCHANGED <<llm, service_context, keyUses>>
    /\ UNCHANGED <<nb, rerunVars, i, env, fsVars, dlVars, docVars, loopVars, agents,
                   topVars, runVars, nomicVars>>

(* ------------- agents notebook: the agent cell (416-465) --------------- *)
\* VectorStoreIndex.from_documents(docs, service_context=ctx)
VectorIndexOf(docs, ctx) ==
    [kind |-> "VectorStoreIndex", docs |-> docs, objects |-> <<>>, ctx |-> ctx]

\* SummaryIndex.from_documents(docs, service_context=ctx)
SummaryIndexOf(docs, ctx) ==
    [kind |-> "SummaryIndex", docs |-> docs, objects |-> <<>>, ctx |-> ctx]

\* idx.as_query_engine()
AsQueryEngine(idx) == [kind |-> "QueryEngine", index |-> idx]

\* the two tools with their query engines exchanged
QueryEngineTools_swapped(t, vqe, lqe) ==
    << [kind |-> "QueryEngineTool", query_engine |-> lqe, name |-> "vector_tool",
        description |-> <<"Useful for retrieving specific context from", t>>],
       [kind |-> "QueryEngineTool", query_engine |-> vqe, name |-> "summary_tool",
        description |-> <<"Useful for summarization questions related to", t>>] >>

\* the list of the two QueryEngineTool objects of lines 435-455
QueryEngineTools(t, vqe, lqe) ==
    << [kind |-> "QueryEngineTool", query_engine |-> vqe, name |-> "vector_tool",
        description |-> <<"Useful for retrieving specific context from", t>>],
       [kind |-> "QueryEngineTool", query_engine |-> lqe, name |-> "summary_tool",
        description |-> <<"Useful for summarization questions related to", t>>] >>

\* OpenAIAgent.from_tools(tools, llm=fllm, verbose=True)
AgentFromTools(tools, fllm) ==
    [kind |-> "OpenAIAgent", tools |-> tools, llm |-> fllm]

\* the documents of the first title, whatever the iteration
DocsFor_first(docs, t) == docs[wiki_titles[1]]

\* city_docs[wiki_title]: the documents the iteration for title t builds
\* its two indices from
DocsFor(docs, t) == docs[t]

\* every entry of the dict bound to the agent the loop name refers to
StoreAgent_byName(ags, t, ag) == [u \in DOMAIN ags \cup {t} |-> ag]

\* agents[wiki_title] = agent
StoreAgent(ags, t, ag) == DictSet(ags, t, ag)

\* agents = {} and then one iteration of the loop over wiki_titles
AgentStep ==
    /\ nb = "agents" /\ pc = "agents"
    /\ wiki_title' = wiki_titles[i]
    /\ IF wiki_title' \in DOMAIN city_docs /\ "OPENAI_API_KEY" \in DOMAIN env
          THEN /\ vector_index' =
                     VectorIndexOf(DocsFor(city_docs, wiki_title'), service_context)
               /\ summary_index' =
                     SummaryIndexOf(DocsFor(city_docs, wiki_title'), service_context)
               /\ vector_query_engine' = AsQueryEngine(vector_index')
               /\ list_query_engine' = AsQueryEngine(summary_index')
               /\ query_engine_tools' =
                     QueryEngineTools(wiki_title', vector_query_engine',
                                      list_query_engine')
               /\ function_llm' = OpenAI(env, "gpt-3.5-turbo-0613")
               /\ agent' = AgentFromTools(query_engine_tools', function_llm')
               /\ agents' = StoreAgent(IF i = 1 THEN EmptyDict ELSE agents,
                                       wiki_title', agent')
               /\ keyUses' = keyUses
                     \cup {KeyUse("OpenAI", "env", env["OPENAI_API_KEY"])}
               /\ steps' = steps \o <<"construct", "construct", "build",
                                      "build", "construct", "construct">>
               /\ raised' = raised
               /\ IF i < Len(wiki_titles)
                     THEN i' = i + 1 /\ pc' = pc
                     ELSE i' = 1 /\ pc' = "objects"
          ELSE /\ raised' = "KeyError"
               /\ pc' = "error"
               /\ UNCHANGED <<loopVars, agents, keyUses, steps, i>>
    /\ UNCHANGED <<nb, rerunVars, env, fsVars, dlVars, city_docs, ctxVars, topVars,
                   runVars, nomicVars>>

(* ----------- agents notebook: the top-level nodes (485-512) ------------ *)
\* the node linked to the agent the loop over the agents left last
IndexNodeOf_last(t, ags) ==
    [kind |-> "IndexNode", text |-> <<"Wikipedia articles about", t>>,
     index_id |-> t, obj |-> ags[wiki_titles[Len(wiki_titles)]]]

\* IndexNode(text=wiki_summary, index_id=wiki_title, obj=agents[wiki_title])
IndexNodeOf(t, ags) ==
    [kind |-> "IndexNode", text |-> <<"Wikipedia articles about", t>>,
     index_id |-> t, obj |-> ags[t]]

\* the new node put in front of the list
ListAppend_front(lst, x) == <<x>> \o lst

\* objects.append(node)
ListAppend(lst, x) == Append(lst, x)

\* objects = [] and then one iteration of the loop over wiki_titles
ObjectStep ==
    /\ nb = "agents" /\ pc = "objects"
    /\ wiki_title' = wiki_titles[i]
    /\ IF wiki_title' \in DOMAIN agents
          THEN /\ node' = IndexNodeOf(wiki_title', agents)
               /\ objects' = ListAppend(IF i = 1 THEN <<>> ELSE objects, node')
               /\ steps' = Append(steps, "construct")
               /\ raised' = raised
               /\ IF i < Len(wiki_titles)
                     THEN i' = i + 1 /\ pc' = pc
                     ELSE i' = 1 /\ pc' = "toplevel"
          ELSE /\ raised' = "KeyError"
               /\ pc' = "error"
               /\ UNCHANGED <<node, objects, steps, i>>
    /\ UNCHANGED <<nb, rerunVars, envVars, fsVars, dlVars, city_docs, ctxVars, loopVars,
                   agents, query_engine, runVars, nomicVars>>

\* the query engine with two nodes retrieved a query
TopQueryEngine_two(idx) ==
    [kind |-> "QueryEngine", index |-> idx, similarity_top_k |-> 2]

\* vector_index.as_query_engine(similarity_top_k=1, verbose=True)
TopQueryEngine(idx) ==
    [kind |-> "QueryEngine", index |-> idx, similarity_top_k |-> 1]

\* vector_index = VectorStoreIndex(objects=objects, ...); query_engine = ...
TopLevel ==
    /\ nb = "agents" /\ pc = "toplevel"
    /\ vector_index' =
          [kind |-> "VectorStoreIndex", docs |-> <<>>, objects |-> objects,
           ctx |-> service_context]
    /\ query_engine' = TopQueryEngine(vector_index')
    /\ steps' = steps \o <<"construct", "build">>
    /\ pc' = "queries"
    /\ UNCHANGED <<nb, rerunVars, i, raised, envVars, fsVars, dlVars, docVars, ctxVars,
                   summary_index, vector_query_engine, list_query_engine,
                   query_engine_tools, function_llm, agent, agents, node,
                   objects, runVars, nomicVars>>

(* ------------- agents notebook: the example queries (541-646) ---------- *)
\* what a retriever with similarity_top_k = k can return from the items of
\* seq: the k best-ranked ones (all of them when there are fewer), best
\* first, for some ranking of the items by similarity
Retrieve(seq, k) ==
    {[j \in 1..Min(k, Len(seq)) |-> seq[p[j]]] :
        p \in {f \in [1..Min(k, Len(seq)) -> 1..Len(seq)] :
                  \A a, b \in 1..Min(k, Len(seq)) : a # b => f[a] # f[b]}}

\* the tool of agent ag the function-calling LLM names
ToolNamed(ag, name) ==
    CHOOSE t \in {ag.tools[k] : k \in 1..Len(ag.tools)} : t.name = name

\* the agent of a retrieved IndexNode answers q: the tools it calls
RunAgent(nd, q) ==
    [k \in 1..Len(RecordedCalls[q]) |->
        [index_id |-> nd.index_id,
         tool |-> ToolNamed(nd.obj, RecordedCalls[q][k])]]

\* response = query_engine.query(q), for the query text of an example cell
Query(q) ==
    /\ nb = "agents" /\ pc = "queries" /\ runs < MaxRuns
    /\ \E hits \in Retrieve(query_engine.index.objects,
                            query_engine.similarity_top_k) :
          /\ Len(hits) > 0 => hits[1].index_id = RecordedEntering[q]
          /\    /\ lastQuery' =
                      [kind |-> "query", query |-> q, entering |-> hits,
                       calls |-> [k \in 1..Len(hits) |-> RunAgent(hits[k], q)]]
                /\ response' =
                      [kind |-> "Response", query |-> q,
                       sources |-> [k \in 1..Len(hits) |-> hits[k].index_id]]
    /\ runs' = runs + 1
    /\ steps' = Append(steps, "query")
    /\ UNCHANGED <<nb, rerunVars, pc, i, raised, envVars, fsVars, title, page, wiki_text,
                   written, fetched, files0, docVars, ctxVars, loopVars,
                   agents, topVars, stdout, nomicVars>>

\* print(response)
PrintResponse ==
    /\ nb = "agents" /\ pc = "queries" /\ runs < MaxRuns
    /\ stdout' = <<response>>
    /\ runs' = runs + 1
    /\ steps' = Append(steps, "print")
    /\ UNCHANGED <<nb, rerunVars, pc, i, raised, envVars, fsVars, dlVars, docVars,
                   ctxVars, loopVars, agents, topVars, lastQuery, nomicVars>>

(* ------------------------ Nomic notebook (10-205) ---------------------- *)
\* the first cell without its assignment to os.environ
NomicSetKey_omitted ==
    /\ nb = "nomic" /\ pc = "n_setkey"
    /\ pc' = "n_wget"
    /\ UNCHANGED <<nb, rerunVars, i, raised, steps, envVars, fsVars, dlVars, docVars,
                   ctxVars, loopVars, agents, topVars, runVars, nomicVars>>

\* os.environ["OPENAI_API_KEY"] = "<OPENAI_API_KEY>"
NomicSetKey ==
    /\ nb = "nomic" /\ pc = "n_setkey"
    /\ env' = DictSet(env, "OPENAI_API_KEY", "<OPENAI_API_KEY>")
    /\ steps' = Append(steps, "cred")
    /\ pc' = "n_wget"
    /\ UNCHANGED <<nb, rerunVars, i, raised, keyUses, fsVars, dlVars, docVars, ctxVars,
                   loopVars, agents, topVars, runVars, nomicVars>>

\* !mkdir -p 'data/paul_graham/' and !wget ... -O the essay file
NomicWget ==
    /\ nb = "nomic" /\ pc = "n_wget"
    /\ \E x \in Texts : files' = WriteText(files, EssayFile, x)
    /\ dataExists' = TRUE
    /\ steps' = Append(steps, "load")
    /\ pc' = "n_load"
    /\ UNCHANGED <<nb, rerunVars, i, raised, envVars, mkdirs, dlVars, docVars, ctxVars,
                   loopVars, agents, topVars, runVars, nomicVars>>

\* documents = SimpleDirectoryReader("./data/paul_graham/").load_data()
NomicLoad ==
    /\ nb = "nomic" /\ pc = "n_load"
    /\ documents' = LoadData(files, <<EssayFile>>)
    /\ steps' = Append(steps, "load")
    /\ pc' = "n_embed"
    /\ UNCHANGED <<nb, rerunVars, i, raised, envVars, fsVars, dlVars, docVars, ctxVars,
                   loopVars, agents, topVars, runVars, nomic_api_key,
                   embed_model, index, search_query_retriever, retriever_nomic,
                   retrieved_nodes_nomic, n, displayed>>

\* NomicEmbedding(api_key=key, model_name="nomic-embed-text-v1", ...)
NomicEmbedding(key) ==
    [kind |-> "NomicEmbedding", api_key |-> key,
     model_name |-> "nomic-embed-text-v1"]

\* the nodes VectorStoreIndex.from_documents splits docs into: c chunks each
NodesOf(docs, c) ==
    [k \in 1..(Len(docs) * c) |->
        [kind |-> "TextNode", doc |-> docs[((k - 1) \div c) + 1].file,
         chunk |-> ((k - 1) % c) + 1]]

\* the cell of lines 102-115: key, embedding model, service context, index
NomicEmbed ==
    /\ nb = "nomic" /\ pc = "n_embed"
    /\ nomic_api_key' = "<NOMIC_API_KEY>"
    /\ embed_model' = NomicEmbedding(nomic_api_key')
    /\ IF "OPENAI_API_KEY" \in DOMAIN env
          THEN /\ service_context' =
                     [kind |-> "ServiceContext", llm |-> "default",
                      embed_model |-> embed_model', chunk_size |-> 1024]
               /\ \E c \in 1..MaxChunks :
                     index' = [kind |-> "VectorStoreIndex", docs |-> documents,
                               nodes |-> NodesOf(documents, c),
                               ctx |-> service_context']
               /\ keyUses' = keyUses
                     \cup {KeyUse("Nomic", "arg", nomic_api_key'),
                           KeyUse("OpenAI", "env", env["OPENAI_API_KEY"])}
               /\ steps' = steps \o <<"cred", "construct", "construct",
                                      "construct">>
               /\ pc' = "n_retriever"
               /\ raised' = raised
          ELSE /\ raised' = "ValueError"
               /\ pc' = "error"
               /\ keyUses' = keyUses
                     \cup {KeyUse("Nomic", "arg", nomic_api_key')}
               /\ steps' = steps \o <<"cred", "construct", "construct">>
               /\ UNCHANGED <<service_context, index>>
    /\ UNCHANGED <<nb, rerunVars, i, env, fsVars, dlVars, docVars, llm, loopVars, agents,
                   topVars, runVars, documents, search_query_retriever,
                   retriever_nomic, retrieved_nodes_nomic, n, displayed>>

\* the retriever with three nodes retrieved a query
AsRetriever_three(idx) ==
    [kind |-> "Retriever", index |-> idx, similarity_top_k |-> 3]

\* index.as_retriever(service_context=service_context, similarity_top_k=2)
AsRetriever(idx) ==
    [kind |-> "Retriever", index |-> idx, similarity_top_k |-> 2]

\* search_query_retriever = index.as_retriever(...)
NomicRetriever ==
    /\ nb = "nomic" /\ pc = "n_retriever"
    /\ search_query_retriever' = AsRetriever(index)
    /\ steps' = Append(steps, "build")
    /\ pc' = "n_alias"
    /\ UNCHANGED <<nb, rerunVars, i, raised, envVars, fsVars, dlVars, docVars, ctxVars,
                   loopVars, agents, topVars, runVars, documents,
                   nomic_api_key, embed_model, index, retriever_nomic,
                   retrieved_nodes_nomic, n, displayed>>

\* retriever_nomic = search_query_retriever
NomicAlias ==
    /\ nb = "nomic" /\ pc = "n_alias"
    /\ retriever_nomic' = search_query_retriever
    /\ pc' = "n_retrieve"
    /\ UNCHANGED <<nb, rerunVars, i, raised, steps, envVars, fsVars, dlVars, docVars,
                   ctxVars, loopVars, agents, topVars, runVars, documents,
                   nomic_api_key, embed_model, index, search_query_retriever,
                   retrieved_nodes_nomic, n, displayed>>

\* retrieved_nodes_nomic = retriever_nomic.retrieve("What software ...")
NomicRetrieve ==
    /\ nb = "nomic" /\ pc = "n_retrieve"
    /\ retrieved_nodes_nomic' \in
          Retrieve(retriever_nomic.index.nodes,
                   retriever_nomic.similarity_top_k)
    /\ steps' = Append(steps, "query")
    /\ i' = 1
    /\ pc' = "n_display"
    /\ UNCHANGED <<nb, rerunVars, raised, envVars, fsVars, dlVars, docVars, ctxVars,
                   loopVars, agents, topVars, runVars, documents,
                   nomic_api_key, embed_model, index, search_query_retriever,
                   retriever_nomic, n, displayed>>

\* the node the display loop shows in its k-th iteration
LoopItem(seq, k) == seq[k]

\* for n in retrieved_nodes_nomic: display_source_node(n, ...): one iteration
NomicDisplay ==
    /\ nb = "nomic" /\ pc = "n_display"
    /\ i <= Len(retrieved_nodes_nomic)
    /\ n' = LoopItem(retrieved_nodes_nomic, i)
    /\ displayed' = Append(displayed, n')
    /\ steps' = Append(steps, "print")
    /\ i' = i + 1
    /\ pc' = IF i < Len(retrieved_nodes_nomic) THEN pc ELSE "n_done"
    /\ UNCHANGED <<nb, rerunVars, raised, envVars, fsVars, dlVars, docVars, ctxVars,
                   loopVars, agents, topVars, runVars, documents,
                   nomic_api_key, embed_model, index, search_query_retriever,
                   retriever_nomic, retrieved_nodes_nomic>>

Next ==
    \/ DownloadOk
    \/ DownloadFail
    \/ RerunDownload
    \/ LoadStep
    \/ SetKey
    \/ MakeContext
    \/ AgentStep
    \/ ObjectStep
    \/ TopLevel
    \/ \E q \in ExampleQueries : Query(q)
    \/ PrintResponse
    \/ NomicSetKey
    \/ NomicWget
    \/ NomicLoad
    \/ NomicEmbed
    \/ NomicRetriever
    \/ NomicAlias
    \/ NomicRetrieve
    \/ NomicDisplay

Spec == Init /\ [][Next]_vars

(* ======================= the claims, C1 onwards ======================== *)
Range(seq) == {seq[k] : k \in 1..Len(seq)}

\* the place of a step kind in the list (1)-(5) of the system overview;
\* running a retriever or a query engine is none of the five
KindRank(k) ==
    CASE k = "cred" -> 1
      [] k = "load" -> 2
      [] k = "construct" -> 3
      [] k = "build" -> 4
      [] k = "print" -> 5
      [] OTHER -> 0

\* the position of the first step of kind k (0: no such step yet)
FirstStep(k) ==
    IF k \in Range(steps)
       THEN CHOOSE a \in 1..Len(steps) :
               steps[a] = k /\ \A b \in 1..(a - 1) : steps[b] # k
       ELSE 0

Precedes(k1, k2) ==
    k2 \in Range(steps) => k1 \in Range(steps) /\ FirstStep(k1) < FirstStep(k2)

\* C1 as stated: the steps of a run are ordered by kind, (1) credentials,
\* (2) load or fetch, (3) construct, (4) build, (5) print: no step of a later
\* kind comes before a step of an earlier kind.
C1_StepsOrderedByKind ==
    \A a, b \in 1..Len(steps) :
        (a < b /\ KindRank(steps[a]) > 0 /\ KindRank(steps[b]) > 0)
            => KindRank(steps[a]) <= KindRank(steps[b])

\* C1 as amended: in every run the first step of each kind comes in the
\* order of the list from (2) on, the first load or fetch before the first
\* construction, that before the first retriever or query engine is built,
\* that before the first result is printed, and a credential is set before
\* the first library object is constructed; the steps are not ordered by
\* kind throughout (the agents notebook sets OPENAI_API_KEY after it has
\* downloaded and loaded the documents).
C1_FirstStepsInOrder ==
    /\ Precedes("load", "construct")
    /\ Precedes("construct", "build")
    /\ Precedes("build", "print")
    /\ Precedes("cred", "construct")

\* C1, the case: a run of the agents notebook that has done a step of each
\* kind, the credential after a load
C1_Witness ==
    /\ nb = "agents"
    /\ \A k \in {"cred", "load", "construct", "build", "print"} :
          k \in Range(steps)
    /\ FirstStep("load") < FirstStep("cred")

\* the city in wiki_titles the text of an example query names
CityNamed(q) ==
    CASE q = "sports teams in Boston" -> "Boston"
      [] q = "sports teams in Houston" -> "Houston"
      [] q = "positive aspects of Chicago" -> "Chicago"

\* the query engines of agent ag's tools are built over the documents
\* loaded from data/t.txt and over no other document
BuiltOver(ag, t) ==
    \A k \in 1..Len(ag.tools) :
        LET docs == ag.tools[k].query_engine.index.docs IN
            /\ docs = city_docs[t]
            /\ Len(docs) > 0
            /\ \A d \in 1..Len(docs) : docs[d].file = InputFile(t)

\* the agent cell (416-465) has completed
AgentsBuilt == nb = "agents" /\ pc \in {"objects", "toplevel", "queries"}

\* the top-level-node cell (485-498) has completed
ObjectsBuilt == nb = "agents" /\ pc \in {"toplevel", "queries"}

C4_OneAgentPerTitle ==
    AgentsBuilt =>
        /\ DOMAIN agents = Titles
        /\ \A t, u \in Titles : t # u => agents[t] # agents[u]
        /\ \A t \in Titles :
              LET tools == agents[t].tools IN
                 /\ Len(tools) = 2
                 /\ tools[1].name = "vector_tool"
                 /\ tools[1].query_engine.index.kind = "VectorStoreIndex"
                 /\ tools[2].name = "summary_tool"
                 /\ tools[2].query_engine.index.kind = "SummaryIndex"
                 /\ BuiltOver(agents[t], t)
                 /\ \A u \in Titles \ {t}, k \in 1..2 :
                       tools[k].query_engine.index.docs # city_docs[u]

\* C4, the case: the agent cell has just completed, the loop names still
\* bound to the objects of the last title
C4_Witness ==
    /\ nb = "agents" /\ pc = "objects" /\ i = 1
    /\ DOMAIN agents = Titles
    /\ agent = agents[wiki_titles[Len(wiki_titles)]]

\* C5: once the top-level-node cell has completed, objects has one IndexNode
\* a title, in the order of wiki_titles, and the node of title T has
\* index_id T and links to agents[T], never to another city's agent.
C5_OneNodePerTitle ==
    ObjectsBuilt =>
        /\ Len(objects) = Len(wiki_titles)
        /\ \A k \in 1..Len(objects) :
              /\ objects[k].kind = "IndexNode"
              /\ objects[k].index_id = wiki_titles[k]
              /\ objects[k].obj = agents[wiki_titles[k]]
              /\ \A u \in Titles \ {wiki_titles[k]} : objects[k].obj # agents[u]

\* C5, the case: the node cell has just completed, node the last node
C5_Witness ==
    /\ nb = "agents" /\ pc = "toplevel"
    /\ Len(objects) = Len(wiki_titles)
    /\ node = objects[Len(objects)]

\* the download cell (320-344) has completed without an error
DownloadDone == nb = "agents" /\ pc \notin {"download", "error"}

TitleFiles == {DataFile(t) : t \in Titles}

\* the download cell has ended in an error of its fetch
DownloadFailed ==
    /\ nb = "agents" /\ pc = "error"
    /\ raised \in {"ConnectionError", "StopIteration", "KeyError"}
    /\ DOMAIN city_docs = {}

\* C6: when the download cell has completed without error, every title T
\* has a file data/T.txt that holds exactly the extract of the first page
\* of the response fetched for T, distinct titles have distinct files, and
\* the cell has written no other file: every other file is as it was.
C6_EachArticleStored ==
    DownloadDone =>
        /\ \A t \in Titles :
              /\ DataFile(t) \in DOMAIN files
              /\ t \in DOMAIN fetched
              /\ files[DataFile(t)] = <<fetched[t]>>
        /\ \A t, u \in Titles : t # u => DataFile(t) # DataFile(u)
        /\ written = TitleFiles
        /\ DOMAIN files = (DOMAIN files0) \cup TitleFiles
        /\ \A f \in (DOMAIN files) \ TitleFiles : files[f] = files0[f]

\* C6, the case: the cell has just completed, over a disk that held older
\* files, and the last response had two pages
C6_Witness ==
    /\ nb = "agents" /\ pc = "load" /\ i = 1
    /\ OtherFile \in DOMAIN files0
    /\ \E t, u \in Titles : fetched[t] # fetched[u]
    /\ files[DataFile("Houston")] # files0[DataFile("Houston")]

\* C7: a fetch that fails is not caught: the cell ends at once with the
\* error, at the title the loop had reached; no later title is fetched,
\* the files of the titles before it are as the loop wrote them, no file
\* is written for that title or a later one, and nothing runs after it.
C7_FailurePropagates ==
    /\ (nb = "agents" /\ raised # "none") => pc = "error"
    /\ DownloadFailed =>
          /\ title = wiki_titles[i]
          /\ ~ENABLED Next
          /\ DOMAIN fetched = {wiki_titles[j] : j \in 1..(i - 1)}
          /\ written = {DataFile(wiki_titles[j]) : j \in 1..(i - 1)}
          /\ \A j \in 1..(i - 1) :
                files[DataFile(wiki_titles[j])] = <<fetched[wiki_titles[j]]>>
          /\ \A j \in i..Len(wiki_titles) :
                LET f == DataFile(wiki_titles[j]) IN
                   IF f \in DOMAIN files0
                      THEN f \in DOMAIN files /\ files[f] = files0[f]
                      ELSE f \notin DOMAIN files

\* C7, the case: the fetch for the third title has failed after two files
\* were written
C7_Witness ==
    /\ DownloadFailed
    /\ i = 3
    /\ Cardinality(written) = 2
    /\ raised = "KeyError"

\* C8 as stated: every API key a library object uses reached the library
\* through the process environment, and in no other way.
C8_AllKeysFromEnvironment ==
    \A u \in keyUses :
        /\ u.via = "env"
        /\ \E name \in DOMAIN env : env[name] = u.key

\* C8 as amended: every key is in place before the library object that
\* needs it is constructed, so that no construction fails for a missing
\* key; the OpenAI key reaches the library through os.environ, in both
\* notebooks; the Nomic key is never written to the environment: it is
\* bound to the name nomic_api_key and handed to NomicEmbedding as its
\* api_key argument.
C8_KeysInPlace ==
    /\ raised # "ValueError"
    /\ \A u \in keyUses :
          /\ u.lib \in {"OpenAI", "Nomic"}
          /\ u.lib = "OpenAI" =>
                /\ u.via = "env"
                /\ "OPENAI_API_KEY" \in DOMAIN env
                /\ env["OPENAI_API_KEY"] = u.key
          /\ u.lib = "Nomic" =>
                /\ u.via = "arg"
                /\ u.key = nomic_api_key
                /\ embed_model.api_key = u.key
                /\ \A name \in DOMAIN env : env[name] # u.key
    /\ llm # Unbound => llm.api_key = env["OPENAI_API_KEY"]
    /\ function_llm # Unbound => function_llm.api_key = env["OPENAI_API_KEY"]
    /\ service_context # Unbound =>
          \E u \in keyUses : u.lib = "OpenAI" /\ u.via = "env"
    /\ embed_model # Unbound =>
          \E u \in keyUses : u.lib = "Nomic" /\ u.key = embed_model.api_key

\* C8, the case: the Nomic notebook has constructed its embedding model and
\* its service context, with both keys used
C8_Witness ==
    /\ nb = "nomic" /\ pc = "n_retriever"
    /\ \E u \in keyUses : u.lib = "Nomic" /\ u.via = "arg"
    /\ \E u \in keyUses : u.lib = "OpenAI" /\ u.via = "env"

C10_TopTwoShownInOrder ==
    (nb = "nomic" /\ pc \in {"n_display", "n_done"}) =>
        /\ Len(retrieved_nodes_nomic) <= 2
        /\ retriever_nomic.index = index
        /\ index.docs = documents
        /\ \A k \in 1..Len(retrieved_nodes_nomic) :
              /\ retrieved_nodes_nomic[k] \in Range(index.nodes)
              /\ \E d \in 1..Len(documents) :
                    retrieved_nodes_nomic[k].doc = documents[d].file
        /\ displayed = SubSeq(retrieved_nodes_nomic, 1, i - 1)
        /\ pc = "n_done" => displayed = retrieved_nodes_nomic

\* C10, the case: the display loop has ended after showing two nodes of an
\* index of three
C10_Witness ==
    /\ nb = "nomic" /\ pc = "n_done"
    /\ Len(index.nodes) = 3
    /\ Len(displayed) = 2
    /\ displayed[1] # displayed[2]

\* the titles the loop at position i has still to go through
TitlesToGo == {wiki_titles[j] : j \in i..Len(wiki_titles)}

\* C11: in a run from the top, what the step about to run reads has been
\* produced by an earlier step: each data/T.txt is written by the download
\* loop before the load loop reads it, city_docs[T] is set before the
\* agent loop reads it, agents[T] before the node loop reads it, objects is
\* complete before the top-level index is built over it, service_context
\* is bound before an index is constructed with it, and likewise for the
\* names and the essay file of the Nomic notebook; no step raises for a
\* file or a key that is missing.
C11_ReadsAreProduced ==
    /\ raised # "FileNotFoundError"
    /\ raised = "KeyError" => DownloadFailed
    /\ (nb = "agents" /\ pc = "load") =>
          \A t \in TitlesToGo :
              InputFile(t) \in written /\ InputFile(t) \in DOMAIN files
    /\ (nb = "agents" /\ pc = "agents") =>
          /\ service_context # Unbound
          /\ \A t \in TitlesToGo : t \in DOMAIN city_docs
    /\ (nb = "agents" /\ pc = "objects") =>
          \A t \in TitlesToGo : t \in DOMAIN agents
    /\ (nb = "agents" /\ pc = "toplevel") =>
          /\ service_context # Unbound
          /\ Len(objects) = Len(wiki_titles)
          /\ \A k \in 1..Len(objects) : objects[k].index_id = wiki_titles[k]
    /\ (nb = "agents" /\ pc = "queries") =>
          /\ query_engine # Unbound
          /\ query_engine.index.objects = objects
          /\ response # Unbound
    /\ \A idx \in {vector_index, summary_index, index} :
          idx # Unbound =>
              /\ idx.ctx = service_context
              /\ idx.ctx.kind = "ServiceContext"
    /\ \A t \in DOMAIN agents, k \in 1..2 :
          agents[t].tools[k].query_engine.index.ctx = service_context
    /\ (nb = "nomic" /\ pc = "n_load") =>
          EssayFile \in DOMAIN files /\ EssayFile \notin DOMAIN files0
    /\ (nb = "nomic" /\ pc = "n_embed") => Len(documents) > 0
    /\ (nb = "nomic" /\ pc = "n_retriever") => index # Unbound
    /\ (nb = "nomic" /\ pc = "n_alias") => search_query_retriever # Unbound
    /\ (nb = "nomic" /\ pc = "n_retrieve") =>
          retriever_nomic # Unbound /\ retriever_nomic.index = index
    /\ (nb = "nomic" /\ pc = "n_display") =>
          i <= Len(retrieved_nodes_nomic)

\* C11, the case: the agents notebook run from the top, over a disk that
\* held no file, has built its query engine and run a query
C11_Witness ==
    /\ nb = "agents" /\ pc = "queries"
    /\ DOMAIN files0 = {}
    /\ lastQuery.kind = "query"
    /\ DOMAIN agents = Titles

(* ------------------------------- C12 ----------------------------------- *)

\* C12: running the download cell again, the API returning what it returned
\* before, changes nothing: Path.mkdir is called at most once over all
\* iterations and runs (only when data was absent) and so never fails on an
\* existing directory; each data/T.txt holds one text, the one written last,
\* not the texts of both runs; and throughout and after the later run the
\* files and their contents are those the first run left.
C12_RerunIdempotent ==
    /\ mkdirs <= 1
    /\ raised # "FileExistsError"
    /\ (nb = "agents" /\ mkdirs = 1) => dataExists /\ DOMAIN files0 = {}
    /\ (nb = "agents" /\ run > 1) =>
          /\ pc # "error"
          /\ files = files1
          /\ DOMAIN files = DOMAIN files0 \cup TitleFiles
          /\ \A t \in Titles :
                /\ Len(files[DataFile(t)]) = 1
                /\ files[DataFile(t)] = <<fetched[t]>>

C12_Witness ==
    /\ nb = "agents" /\ run > 1 /\ pc = "load" /\ i = 1
    /\ mkdirs = 1
    /\ files = files1
    /\ files[DataFile("Boston")] # files[DataFile("Houston")]

(* ------------------------------- C13 ----------------------------------- *)

\* the query engines and the indices agent ag's tools hold
EnginesOf(ag) == {ag.tools[k].query_engine : k \in 1..Len(ag.tools)}

IndicesOf(ag) == {e.index : e \in EnginesOf(ag)}

\* the objects the loop-local names and the top-level names refer to
NamedIndices == {vector_index, summary_index}

NamedEngines == {vector_query_engine, list_query_engine}

\* the title of the iteration of the agent loop run last (the loop takes
\* wiki_titles in order), and the titles of the iterations before it
LastBuilt == wiki_titles[Cardinality(DOMAIN agents)]

EarlierTitles ==
    IF DOMAIN agents = {} THEN {} ELSE DOMAIN agents \ {LastBuilt}

\* what holds of agents in every state
C13_AgentsApart ==
    nb = "agents" =>
        /\ \A t \in DOMAIN agents :
              /\ BuiltOver(agents[t], t)
              /\ \A u \in DOMAIN agents \ {t} :
                    /\ agents[t] # agents[u]
                    /\ Range(agents[t].tools) \cap Range(agents[u].tools) = {}
                    /\ EnginesOf(agents[t]) \cap EnginesOf(agents[u]) = {}
                    /\ IndicesOf(agents[t]) \cap IndicesOf(agents[u]) = {}
        /\ DOMAIN agents # {} => agent = agents[LastBuilt]
        /\ \A t \in EarlierTitles :
              /\ agents[t] # agent
              /\ Range(agents[t].tools) \cap Range(query_engine_tools) = {}
              /\ EnginesOf(agents[t]) \cap NamedEngines = {}
              /\ IndicesOf(agents[t]) \cap NamedIndices = {}
        /\ pc = "queries" =>
              /\ vector_index.objects = objects
              /\ \A t \in DOMAIN agents : vector_index \notin IndicesOf(agents[t])

\* what every step leaves of agents
C13_AgentsKept ==
    \A t \in DOMAIN agents : t \in DOMAIN agents' /\ agents'[t] = agents[t]

\* C13: no step changes the agent stored for a title, neither a later
\* iteration of the agent loop that rebinds vector_index, summary_index,
\* vector_query_engine, list_query_engine, query_engine_tools and agent, nor
\* the top-level cell that rebinds vector_index to the index over objects;
\* in every state agents[T] uses query engines built from city_docs[T], no
\* two titles share an agent, a tool, a query engine or an index, and the
\* objects the rebound names refer to are none of an earlier title's.
C13_EarlierAgentsUnchanged == []C13_AgentsApart /\ [][C13_AgentsKept]_vars

\* C13, the case: all iterations and the top-level cell have run; the loop
\* names refer to the last title's objects, vector_index to the index over
\* objects, and the first title's agent has its own two indices
C13_Witness ==
    /\ nb = "agents" /\ pc = "queries"
    /\ DOMAIN agents = Titles
    /\ agent = agents[LastBuilt]
    /\ vector_index.objects = objects /\ Len(objects) = Len(wiki_titles)
    /\ summary_index \in IndicesOf(agents[LastBuilt])
    /\ BuiltOver(agents[wiki_titles[1]], wiki_titles[1])
    /\ Cardinality(IndicesOf(agents[wiki_titles[1]])) = 2

====
